---- MODULE Spec2Model ----
(***************************************************************************)
(* Timesheet-to-invoice conversion pipeline (scripts/timesheet_agent.py):  *)
(*   load_source_dataframe -> build_target_dataframe -> write_to_template, *)
(* orchestrated by convert_timesheet.                                      *)
(*                                                                         *)
(* Text is a sequence of one-character strings, so that tokenising,        *)
(* trimming, joining and pattern matching are computed and not assumed.    *)
(* A cell of the source table, a field of a target record and a cell of a  *)
(* sheet are all values [k, s, n]: k = "null" (NaN / empty cell),          *)
(* "str" (text s), "num" (number n), "date" (day number n).                *)
(***************************************************************************)
EXTENDS Integers, Sequences, FiniteSets, TLC

\* ------------------------------------------------------------------ bounds

\* Most data rows (rows at index >= 2) of a source table.
MaxDataRows == 2

\* Most tokens of an ActivityDescription in the extraction specification.
MaxTokens == 4

\* ------------------------------------------------------------- characters

Upper == {"A","B","C","D","E","F","G","H","I","J","K","L","M",
          "N","O","P","Q","R","S","T","U","V","W","X","Y","Z"}

Lower == {"a","b","c","d","e","f","g","h","i","j","k","l","m",
          "n","o","p","q","r","s","t","u","v","w","x","y","z"}

\* [A-Za-z] of STUDENT_ID_PATTERN
Letters == Upper \cup Lower

\* \d of STUDENT_ID_PATTERN
Digits == {"0","1","2","3","4","5","6","7","8","9"}

\* the characters str.split() and str.strip() treat as white space
Whitespace == {" ", "\t"}

\* ------------------------------------------------------------------ values

Null == [k |-> "null", s |-> <<>>, n |-> 0]

Str(chars) == [k |-> "str", s |-> chars, n |-> 0]

Num(x) == [k |-> "num", s |-> <<>>, n |-> x]

DateVal(d) == [k |-> "date", s |-> <<>>, n |-> d]

\* pd.notna(value)
NotNa(v) == v.k # "null"

\* ------------------------------------------------------------ text helpers

RECURSIVE LStrip(_)
\* str.lstrip(): drop leading white space
LStrip(s) ==
  IF s = <<>> THEN <<>>
  ELSE IF Head(s) \in Whitespace THEN LStrip(Tail(s)) ELSE s

RECURSIVE RStrip(_)
\* str.rstrip(): drop trailing white space
RStrip(s) ==
  IF s = <<>> THEN <<>>
  ELSE IF s[Len(s)] \in Whitespace THEN RStrip(SubSeq(s, 1, Len(s) - 1)) ELSE s

\* str.strip()
Strip(s) == RStrip(LStrip(s))

RECURSIVE SplitFrom(_, _, _)
\* str.split() with no separator: maximal runs of non-white-space characters;
\* cur is the token being read, acc the tokens already closed
SplitFrom(s, cur, acc) ==
  IF s = <<>> THEN (IF cur = <<>> THEN acc ELSE Append(acc, cur))
  ELSE IF Head(s) \in Whitespace
       THEN SplitFrom(Tail(s), <<>>, IF cur = <<>> THEN acc ELSE Append(acc, cur))
       ELSE SplitFrom(Tail(s), Append(cur, Head(s)), acc)

Split(s) == SplitFrom(s, <<>>, <<>>)

RECURSIVE JoinWith(_, _)
\* sep.join(parts)
JoinWith(sep, parts) ==
  IF parts = <<>> THEN <<>>
  ELSE IF Len(parts) = 1 THEN parts[1]
  ELSE parts[1] \o sep \o JoinWith(sep, Tail(parts))

\* ----------------------------------------------------------- FieldExtractor

\* STUDENT_ID_PATTERN.match(token): ^[A-Za-z]{2}\d{6}$
MatchesStudentId(token) ==
  /\ Len(token) = 8
  /\ \A i \in 1..2 : token[i] \in Letters
  /\ \A i \in 3..8 : token[i] \in Digits

RECURSIVE DedupeFrom(_, _, _)
\* the loop of dedupe_tokens: seen is the set, ordered the output list
DedupeFrom(tokens, seen, ordered) ==
  IF tokens = <<>> THEN ordered
  ELSE IF Head(tokens) \notin seen
       THEN DedupeFrom(Tail(tokens), seen \cup {Head(tokens)}, Append(ordered, Head(tokens)))
       ELSE DedupeFrom(Tail(tokens), seen, ordered)

dedupe_tokens(tokens) == DedupeFrom(tokens, {}, <<>>)

\* Candidate with the tie going to the right side
CandidateTieRight(tokens, index) ==
  LET left_tokens  == SubSeq(tokens, 1, index - 1)
      right_tokens == SubSeq(tokens, index + 1, Len(tokens))
  IN  IF Len(right_tokens) >= Len(left_tokens) THEN right_tokens ELSE left_tokens

\* the side of the identifier at position index (1-based) the name is taken from
Candidate(tokens, index) ==
  LET left_tokens  == SubSeq(tokens, 1, index - 1)
      right_tokens == SubSeq(tokens, index + 1, Len(tokens))
  IN  IF Len(right_tokens) > Len(left_tokens) THEN right_tokens
      ELSE IF Len(right_tokens) = Len(left_tokens) THEN left_tokens
      ELSE left_tokens

RECURSIVE ScanFrom(_, _)
\* the for loop of extract_student_fields from position index on
ScanFrom(tokens, index) ==
  IF index > Len(tokens) THEN [id |-> <<>>, name |-> <<>>]
  ELSE IF MatchesStudentId(tokens[index])
       THEN [id   |-> tokens[index],
             name |-> Strip(JoinWith(<<" ">>, dedupe_tokens(Candidate(tokens, index))))]
       ELSE ScanFrom(tokens, index + 1)

\* the tokens of str(activity): split on white space, trimmed, empties dropped
Tokenize(text) == SelectSeq([i \in 1..Len(Split(text)) |-> Strip(Split(text)[i])],
                            LAMBDA t : Strip(t) # <<>>)

\* extract_student_fields applied to the text of str(activity)
extract_student_fields(text) == ScanFrom(Tokenize(text), 1)

\* ------------------------------------------------------------ SourceLoader

EXPECTED_SOURCE_COLUMNS ==
  <<"ActivityDescription", "TherapistName", "Date", "PlacementDesc",
    "RateName", "EntryQuantity", "ChargeRate", "TotalCharge">>

Range(f) == {f[i] : i \in DOMAIN f}

\* row.isna().all()
AllNa(row) == \A c \in DOMAIN row : ~NotNa(row[c])

\* MissingColumns stopping at the first absent label
MissingColumnsFirstOnly(headers) ==
  LET all == SelectSeq(EXPECTED_SOURCE_COLUMNS, LAMBDA col : col \notin Range(headers))
  IN  IF all = <<>> THEN <<>> ELSE <<all[1]>>

\* the required labels that are not column labels, in the order of the list
MissingColumns(headers) ==
  SelectSeq(EXPECTED_SOURCE_COLUMNS, LAMBDA col : col \notin Range(headers))

\* the column positions of label, left to right
PositionsOf(headers, label) ==
  SelectSeq([c \in 1..Len(headers) |-> c], LAMBDA c : headers[c] = label)

RECURSIVE PositionsOfAll(_, _)
\* df[labels]: for each label in turn, every column carrying it
PositionsOfAll(headers, labels) ==
  IF labels = <<>> THEN <<>>
  ELSE PositionsOf(headers, Head(labels)) \o PositionsOfAll(headers, Tail(labels))

\* df_source[EXPECTED_SOURCE_COLUMNS]
Restrict(headers, rows) ==
  LET pos == PositionsOfAll(headers, EXPECTED_SOURCE_COLUMNS)
  IN  [columns |-> [c \in 1..Len(pos) |-> headers[pos[c]]],
       rows    |-> [r \in 1..Len(rows) |-> [c \in 1..Len(pos) |-> rows[r][pos[c]]]]]

NoFrame == [columns |-> <<>>, rows |-> <<>>]

NoError == [kind |-> "none", missing |-> <<>>]

\* df.dropna(how="all")
DropAllNa(rows) == SelectSeq(rows, LAMBDA row : ~AllNa(row))

\* load_source_dataframe on a raw table of nrows rows whose row 1 is headers
\* and whose rows from index 2 on are body
load_source_dataframe(nrows, headers, body) ==
  IF nrows < 3
  THEN [err |-> [kind |-> "InsufficientRows", missing |-> <<>>], df |-> NoFrame]
  ELSE LET kept    == DropAllNa(body)
           missing == MissingColumns(headers)
       IN  IF missing # <<>>
           THEN [err |-> [kind |-> "MissingColumns", missing |-> missing], df |-> NoFrame]
           ELSE [err |-> NoError, df |-> Restrict(headers, kept)]

\* --------------------------------------------------------- RecordTransformer

\* bool(value): NaN is a non-zero float, so it is true
Truthy(v) ==
  CASE v.k = "null" -> TRUE
    [] v.k = "str"  -> v.s # <<>>
    [] v.k = "num"  -> v.n # 0
    [] v.k = "date" -> TRUE

\* str(value) of a text cell or of NaN
StrOf(v) ==
  CASE v.k = "null" -> <<"n", "a", "n">>
    [] v.k = "str"  -> v.s

\* str(value or "").strip()
CleanText(v) == Strip(IF Truthy(v) THEN StrOf(v) ELSE <<>>)

DigitChar(d) == <<"0","1","2","3","4","5","6","7","8","9">>[d + 1]

\* the decimal digits of x, zero padded to width characters
RECURSIVE Pad(_, _)
Pad(x, width) ==
  IF width = 0 THEN <<>> ELSE Append(Pad(x \div 10, width - 1), DigitChar(x % 10))

\* strftime("%m/%d/%Y") of the day n = yyyymmdd
FormatDate(n) ==
  Pad((n \div 100) % 100, 2) \o <<"/">> \o Pad(n % 100, 2) \o <<"/">> \o Pad(n \div 10000, 4)

\* date_str of a Date cell
DateStr(v) ==
  IF NotNa(v)
  THEN (IF v.k = "date" THEN FormatDate(v.n) ELSE Strip(StrOf(v)))
  ELSE <<>>

\* the integer nearest to a / b (b > 0), an exact half going to the even one
RoundHalfEven(a, b) ==
  LET q == a \div b
      r == a % b
  IN  IF 2 * r < b THEN q
      ELSE IF 2 * r > b THEN q + 1
      ELSE IF q % 2 = 0 THEN q ELSE q + 1

\* round(float(entry_quantity) * 60, 2): hours are counted in ten-thousandths
\* of an hour, minutes in hundredths of a minute
MinutesOf(hours) == RoundHalfEven(hours * 60 * 100, 10000)

\* row.get(label): the cell of the column carrying label (the leftmost one;
\* RowRaises covers the labels whose repetition makes the loop body raise)
Get(columns, row, label) == row[PositionsOf(columns, label)[1]]

\* row.get(label) is a Series, not a cell, when several columns carry label
Ambiguous(columns, label) == Len(PositionsOf(columns, label)) > 1

\* the labels whose value the loop body tests or converts as one scalar
ScalarLabels == {"TherapistName", "Date", "PlacementDesc", "EntryQuantity"}

\* the body of the loop of build_target_dataframe raises on this row
RowRaises(columns, row) ==
  \/ \E label \in ScalarLabels : Ambiguous(columns, label)
  \/ Get(columns, row, "EntryQuantity").k \notin {"null", "num"}

\* MinutesValue testing the hours for truth instead of for presence
MinutesValueTruthy(entry_quantity) ==
  IF NotNa(entry_quantity) /\ entry_quantity.n # 0
  THEN Num(MinutesOf(entry_quantity.n)) ELSE Str(<<>>)

\* minutes_value of an EntryQuantity cell
MinutesValue(entry_quantity) ==
  IF NotNa(entry_quantity) THEN Num(MinutesOf(entry_quantity.n)) ELSE Str(<<>>)

\* the record of one row, its six fields in the order of TARGET_COLUMNS
BuildRecord(columns, row) ==
  LET fields == extract_student_fields(StrOf(Get(columns, row, "ActivityDescription")))
  IN  << Str(CleanText(Get(columns, row, "TherapistName"))),
         Str(DateStr(Get(columns, row, "Date"))),
         Str(fields.id),
         Str(fields.name),
         Str(CleanText(Get(columns, row, "PlacementDesc"))),
         MinutesValue(Get(columns, row, "EntryQuantity")) >>

\* Retained without the skip of the rows that are entirely NaN
RetainedAll(rows) == rows

\* the rows the loop does not skip
Retained(rows) == SelectSeq(rows, LAMBDA row : ~AllNa(row))

\* build_target_dataframe: the records, or a failure at the first row that raises
build_target_dataframe(df) ==
  LET rows == Retained(df.rows)
  IN  IF \E r \in 1..Len(rows) : RowRaises(df.columns, rows[r])
      THEN [err |-> [kind |-> "ValueError", missing |-> <<>>], records |-> <<>>]
      ELSE [err |-> NoError,
            records |-> [r \in 1..Len(rows) |-> BuildRecord(df.columns, rows[r])]]

\* ------------------------------------------------------------ TemplateWriter

\* start_row
StartRow == 7

column_letters == <<"A", "B", "C", "D", "E", "F">>

\* the rows of a sheet that are kept track of: the one above the data, the
\* rows the records can take, and one more below them
SheetRows == (StartRow - 1)..(StartRow + MaxDataRows)

Coords == Range(column_letters) \X SheetRows

\* WriteCells with rows counted from zero: every value lands one row too high
WriteCellsRowAbove(sheet, row_index, values, col_idx) ==
  [coord \in DOMAIN sheet |->
     IF coord[2] = row_index - 1 /\ \E j \in col_idx..Len(values) : column_letters[j] = coord[1]
     THEN [value |-> values[CHOOSE j \in col_idx..Len(values) : column_letters[j] = coord[1]],
           fill  |-> FALSE]
     ELSE sheet[coord]]

RECURSIVE WriteCells(_, _, _, _)
\* the inner loop of write_to_template from col_idx on: value and cleared fill
WriteCells(sheet, row_index, values, col_idx) ==
  IF col_idx > Len(values) THEN sheet
  ELSE WriteCells([sheet EXCEPT ![<<column_letters[col_idx], row_index>>] =
                                     [value |-> values[col_idx], fill |-> FALSE]],
                  row_index, values, col_idx + 1)

\* ------------------------------------------ extraction specification: inputs

\* the text of a token, one character per element
Chars(str) ==
  CASE str = "AB123456"  -> <<"A","B","1","2","3","4","5","6">>
    [] str = "cd654321"  -> <<"c","d","6","5","4","3","2","1">>
    [] str = "AB12345"   -> <<"A","B","1","2","3","4","5">>
    [] str = "AB1234567" -> <<"A","B","1","2","3","4","5","6","7">>
    [] str = "A1234567"  -> <<"A","1","2","3","4","5","6","7">>
    [] str = "Jane"      -> <<"J","a","n","e">>
    [] str = "Doe"       -> <<"D","o","e">>
    [] str = "nan"       -> <<"n","a","n">>
    [] str = "Ann"       -> <<"A","n","n">>
    [] str = "OT"        -> <<"O","T">>
    [] str = "3/5/24"    -> <<"3","/","5","/","2","4">>
    [] str = "n/a"       -> <<"n","/","a">>
    [] str = "memo"      -> <<"m","e","m","o">>
    [] OTHER             -> <<>>

\* tokens an ActivityDescription is made of: two identifiers, three near
\* misses of the pattern (7 characters, 9 characters, a digit in second
\* place) and two plain words
TokenChoices == {Chars("AB123456"), Chars("cd654321"), Chars("AB12345"),
                 Chars("AB1234567"), Chars("A1234567"), Chars("Jane"), Chars("Doe")}

\* all sequences over S of length at most n
SeqsUpTo(S, n) == UNION {[1..m -> S] : m \in 0..n}

\* white space put between two tokens, and around the text
Separators == {<<" ">>, <<"\t", " ">>}

Paddings == {<<>>, <<" ">>}

VARIABLES exTokens, exText, exOut, exPc

exVars == <<exTokens, exText, exOut, exPc>>

NoFields == [id |-> <<>>, name |-> <<>>]

ExIdle ==
  /\ exTokens = <<>>
  /\ exText = <<>>
  /\ exOut = NoFields
  /\ exPc = "idle"

ExInputs ==
  /\ exTokens \in SeqsUpTo(TokenChoices, MaxTokens)
  /\ \E sep \in Separators, pad \in Paddings :
        exText = pad \o JoinWith(sep, exTokens) \o pad
  /\ exOut = NoFields
  /\ exPc = "ready"

\* one call of extract_student_fields(activity)
Extract ==
  /\ exPc = "ready"
  /\ exOut' = extract_student_fields(exText)
  /\ exPc' = "done"
  /\ UNCHANGED <<exTokens, exText>>



\* --------------------------------------------------- conversion: the inputs

\* a data row, cell by column label; Dup is the cell of a column whose label
\* repeats one to its left, Notes the cell of a column that is not required
FullRow ==
  [ActivityDescription |-> Str(JoinWith(<<" ">>, <<Chars("AB123456"), Chars("Doe"),
                                                   Chars("Jane"), Chars("Doe")>>)),
   TherapistName |-> Str(<<" ">> \o Chars("Ann") \o <<" ">>),
   Date          |-> DateVal(20240305),
   PlacementDesc |-> Str(Chars("OT") \o <<" ">>),
   RateName      |-> Str(Chars("memo")),
   EntryQuantity |-> Num(15000),
   ChargeRate    |-> Num(500000),
   TotalCharge   |-> Num(750000),
   Notes         |-> Str(Chars("memo")),
   Dup           |-> Str(Chars("memo"))]

EmptyRow ==
  [ActivityDescription |-> Null, TherapistName |-> Null, Date |-> Null,
   PlacementDesc |-> Null, RateName |-> Null, EntryQuantity |-> Null,
   ChargeRate |-> Null, TotalCharge |-> Null, Notes |-> Null, Dup |-> Null]

\* a value only in the column that is not required
NotesOnlyRow == [EmptyRow EXCEPT !.Notes = Str(Chars("memo"))]

\* no therapist, no service, zero hours, a date typed as text, no identifier
SparseRow ==
  [EmptyRow EXCEPT !.ActivityDescription = Str(Chars("Jane") \o <<" ">> \o Chars("Doe")),
                   !.Date = Str(<<" ">> \o Chars("3/5/24")),
                   !.EntryQuantity = Num(0)]

\* a value only in a required column that no target field reads
RateOnlyRow == [EmptyRow EXCEPT !.RateName = Str(Chars("memo"))]

\* hours typed as text that is no number
TextHoursRow == [FullRow EXCEPT !.EntryQuantity = Str(Chars("n/a"))]

RowChoices == {FullRow, EmptyRow, NotesOnlyRow, SparseRow, RateOnlyRow, TextHoursRow}

Reverse(seq) == [i \in 1..Len(seq) |-> seq[Len(seq) + 1 - i]]

Without(seq, labels) == SelectSeq(seq, LAMBDA x : x \notin labels)

\* header rows: canonical; another order with a column that is not required;
\* one and two required labels absent; a required label twice
HeaderChoices ==
  { EXPECTED_SOURCE_COLUMNS,
    <<"Notes">> \o Reverse(EXPECTED_SOURCE_COLUMNS),
    Without(EXPECTED_SOURCE_COLUMNS, {"TherapistName"}) \o <<"Notes">>,
    Without(EXPECTED_SOURCE_COLUMNS, {"Date", "TotalCharge"}),
    EXPECTED_SOURCE_COLUMNS \o <<"RateName">>,
    EXPECTED_SOURCE_COLUMNS \o <<"Date">> }

\* the cells of a data row under a header row
Layout(hdr, row) ==
  [c \in 1..Len(hdr) |->
     IF \E b \in 1..(c - 1) : hdr[b] = hdr[c] THEN row.Dup ELSE row[hdr[c]]]

Cell(v, f) == [value |-> v, fill |-> f]

BlankSheet == [coord \in Coords |-> Cell(Null, FALSE)]

\* a template with a heading row and flagged cells in the data rows
FlaggedSheet ==
  [coord \in Coords |->
     IF coord[2] < StartRow THEN Cell(Str(Chars("Jane")), FALSE)
     ELSE Cell(Str(Chars("n/a")), TRUE)]

\* what an earlier, unrelated run left at the destination
OldSheet == [coord \in Coords |-> Cell(Str(Chars("memo")), FALSE)]

File(sheet) == [exists |-> TRUE, sheet |-> sheet]

Absent == [exists |-> FALSE, sheet |-> BlankSheet]

TemplatePath == "template"

\* ----------------------------------------------------- conversion: the state

VARIABLES
  pc,          \* the next step of convert_timesheet, or "done" / "failed"
  run,         \* 1 in the first call of convert_timesheet, 2 in the second
  rawRows,     \* number of rows of the raw source table
  headers,     \* its row 1: the column labels
  body,        \* its rows from index 2 on
  outPath,     \* the file output_path resolves to
  files,       \* the content of the two files
  dirExists,   \* output_path.parent exists
  dirBlocked,  \* output_path.parent cannot be created
  dfSource,    \* df_source
  dfTarget,    \* the records of df_target
  workbook,    \* the sheet of the workbook opened by load_workbook
  rowIndex,    \* row_index of the outer loop of write_to_template
  err,         \* the error raised
  atStart,     \* files and directory before the first call
  afterFirst   \* files and directory after the first call

pipeVars == <<pc, run, rawRows, headers, body, outPath, files, dirExists, dirBlocked,
              dfSource, dfTarget, workbook, rowIndex, err, atStart, afterFirst>>

vars == <<pipeVars, exVars>>

Snapshot == [files |-> files, dirExists |-> dirExists]

InitTable ==
  /\ rawRows \in 0..(2 + MaxDataRows)
  /\ headers \in (IF rawRows >= 2 THEN HeaderChoices ELSE {<<>>})
  /\ \E chosen \in [1..(IF rawRows >= 2 THEN rawRows - 2 ELSE 0) -> RowChoices] :
       body = [r \in DOMAIN chosen |-> Layout(headers, chosen[r])]

InitFiles ==
  /\ outPath \in {"output", TemplatePath}
  /\ \E tpl \in {Absent, File(BlankSheet), File(FlaggedSheet)},
        out \in {Absent, File(OldSheet)} :
       /\ outPath = TemplatePath => out = Absent
       /\ files = [template |-> tpl, output |-> out]
  /\ dirExists \in BOOLEAN
  /\ dirBlocked \in BOOLEAN
  /\ files[outPath].exists => dirExists
  /\ dirBlocked => ~dirExists

InitRun ==
  /\ dfSource = NoFrame
  /\ dfTarget = <<>>
  /\ workbook = BlankSheet
  /\ rowIndex = StartRow
  /\ err = NoError

Init ==
  /\ InitTable
  /\ InitFiles
  /\ InitRun
  /\ pc = "load"
  /\ run = 1
  /\ atStart = Snapshot
  /\ afterFirst = Snapshot
  /\ ExIdle

Fail(e) ==
  /\ pc' = "failed"
  /\ err' = e

\* Load with the destination directory made before the source is read
LoadAfterMkdir ==
  /\ pc = "load"
  /\ dirExists' = (dirExists \/ ~dirBlocked)
  /\ LET res == load_source_dataframe(rawRows, headers, body)
     IN  IF res.err # NoError
         THEN Fail(res.err) /\ UNCHANGED dfSource
         ELSE dfSource' = res.df /\ pc' = "build" /\ UNCHANGED err
  /\ UNCHANGED <<run, rawRows, headers, body, outPath, files, dirBlocked,
                 dfTarget, workbook, rowIndex, atStart, afterFirst, exVars>>

\* df_source = load_source_dataframe(source_path)
Load ==
  /\ pc = "load"
  /\ LET res == load_source_dataframe(rawRows, headers, body)
     IN  IF res.err # NoError
         THEN Fail(res.err) /\ UNCHANGED dfSource
         ELSE dfSource' = res.df /\ pc' = "build" /\ UNCHANGED err
  /\ UNCHANGED <<run, rawRows, headers, body, outPath, files, dirExists, dirBlocked,
                 dfTarget, workbook, rowIndex, atStart, afterFirst, exVars>>

\* df_target = build_target_dataframe(df_source)
Build ==
  /\ pc = "build"
  /\ LET res == build_target_dataframe(dfSource)
     IN  IF res.err # NoError
         THEN Fail(res.err) /\ UNCHANGED dfTarget
         ELSE dfTarget' = res.records /\ pc' = "mkdir" /\ UNCHANGED err
  /\ UNCHANGED <<run, rawRows, headers, body, outPath, files, dirExists, dirBlocked,
                 dfSource, workbook, rowIndex, atStart, afterFirst, exVars>>

\* output_path.parent.mkdir(parents=True, exist_ok=True)
Mkdir ==
  /\ pc = "mkdir"
  /\ IF ~dirExists /\ dirBlocked
     THEN Fail([kind |-> "OSError", missing |-> <<>>]) /\ UNCHANGED dirExists
     ELSE dirExists' = TRUE /\ pc' = "copy" /\ UNCHANGED err
  /\ UNCHANGED <<run, rawRows, headers, body, outPath, files, dirBlocked,
                 dfSource, dfTarget, workbook, rowIndex, atStart, afterFirst, exVars>>

\* CopyOutcome of a copy that treats a missing source as an empty one
CopyOutcomeMissingOk(fs, src, dst) ==
  IF src = dst THEN "SameFileError" ELSE "copied"

\* CopyOutcome of a copy that does not refuse to copy a file onto itself
CopyOutcomeSameFileOk(fs, src, dst) ==
  IF ~fs[src].exists THEN "TemplateNotFound" ELSE "copied"

\* what shutil.copy(src, dst) does: open(src) fails when src is missing, and
\* copyfile refuses to copy a file onto itself
CopyOutcome(fs, src, dst) ==
  IF ~fs[src].exists THEN "TemplateNotFound"
  ELSE IF src = dst THEN "SameFileError"
  ELSE "copied"

\* the files after shutil.copy(src, dst) has succeeded
CopyFile(fs, src, dst) == [fs EXCEPT ![dst] = fs[src]]

\* shutil.copy(template_path, output_path)
Copy ==
  /\ pc = "copy"
  /\ LET outcome == CopyOutcome(files, TemplatePath, outPath)
     IN  IF outcome # "copied"
         THEN Fail([kind |-> outcome, missing |-> <<>>]) /\ UNCHANGED files
         ELSE files' = CopyFile(files, TemplatePath, outPath) /\ pc' = "open" /\ UNCHANGED err
  /\ UNCHANGED <<run, rawRows, headers, body, outPath, dirExists, dirBlocked,
                 dfSource, dfTarget, workbook, rowIndex, atStart, afterFirst, exVars>>

\* workbook = load_workbook(output_path); worksheet = workbook.active
Open ==
  /\ pc = "open"
  /\ workbook' = files[outPath].sheet
  /\ rowIndex' = StartRow
  /\ pc' = "write"
  /\ UNCHANGED <<run, rawRows, headers, body, outPath, files, dirExists, dirBlocked,
                 dfSource, dfTarget, err, atStart, afterFirst, exVars>>

\* one pass of the outer loop of write_to_template
WriteRow ==
  /\ pc = "write"
  /\ rowIndex - StartRow < Len(dfTarget)
  /\ workbook' = WriteCells(workbook, rowIndex, dfTarget[rowIndex - StartRow + 1], 1)
  /\ rowIndex' = rowIndex + 1
  /\ UNCHANGED <<pc, run, rawRows, headers, body, outPath, files, dirExists, dirBlocked,
                 dfSource, dfTarget, err, atStart, afterFirst, exVars>>

\* SaveFile saving over the template instead of the given path
SaveFileToTemplate(fs, path, sheet) == [fs EXCEPT ![TemplatePath] = File(sheet)]

\* the files after workbook.save(path)
SaveFile(fs, path, sheet) == [fs EXCEPT ![path] = File(sheet)]

\* workbook.save(output_path), and the return of convert_timesheet
Save ==
  /\ pc = "write"
  /\ rowIndex - StartRow = Len(dfTarget)
  /\ files' = SaveFile(files, outPath, workbook)
  /\ pc' = "done"
  /\ UNCHANGED <<run, rawRows, headers, body, outPath, dirExists, dirBlocked,
                 dfSource, dfTarget, workbook, rowIndex, err, atStart, afterFirst, exVars>>

\* the caller runs convert_timesheet again with the same three paths
Rerun ==
  /\ pc \in {"done", "failed"}
  /\ run = 1
  /\ run' = 2
  /\ afterFirst' = Snapshot
  /\ pc' = "load"
  /\ dfSource' = NoFrame
  /\ dfTarget' = <<>>
  /\ workbook' = BlankSheet
  /\ rowIndex' = StartRow
  /\ err' = NoError
  /\ UNCHANGED <<rawRows, headers, body, outPath, files, dirExists, dirBlocked,
                 atStart, exVars>>

Next ==
  \/ Load
  \/ Build
  \/ Mkdir
  \/ Copy
  \/ Open
  \/ WriteRow
  \/ Save
  \/ Rerun

Spec == Init /\ [][Next]_vars

\* ------------------------------------- transformation of one row: the inputs

ActivityCells == {Null, Str(JoinWith(<<" ">>, <<Chars("Jane"), Chars("AB123456"), Chars("Doe")>>))}

TextCells == {Null, Str(<<" ">>), Str(<<" ">> \o Chars("Ann") \o <<"\t">>)}

DateCells == {Null, DateVal(20240305), Str(<<" ">> \o Chars("3/5/24"))}

\* hours: none, zero, 1.5, 0.3333, 0.0001, -0.25, and text that is no number
QuantityCells == {Null, Num(0), Num(15000), Num(3333), Num(1), Num(0 - 2500),
                  Str(Chars("n/a"))}

UnusedCells == {Null, Str(Chars("memo"))}

\* df_source holds one row, drawn cell by cell
InitRow ==
  /\ \E a \in ActivityCells, t \in TextCells, d \in DateCells, p \in TextCells,
        q \in QuantityCells, u \in UnusedCells :
       dfSource = [columns |-> EXPECTED_SOURCE_COLUMNS,
                   rows    |-> << <<a, t, d, p, u, q, Null, Null>> >>]
  /\ rawRows = 3
  /\ headers = EXPECTED_SOURCE_COLUMNS
  /\ body = dfSource.rows
  /\ outPath = "output"
  /\ files = [template |-> Absent, output |-> Absent]
  /\ dirExists = FALSE
  /\ dirBlocked = FALSE
  /\ dfTarget = <<>>
  /\ workbook = BlankSheet
  /\ rowIndex = StartRow
  /\ err = NoError
  /\ pc = "build"
  /\ run = 1
  /\ atStart = Snapshot
  /\ afterFirst = Snapshot
  /\ ExIdle

NextRow == Build

SpecRow == InitRow /\ [][NextRow]_vars

\* the extraction specification: the conversion is not running
PipeIdle ==
  /\ rawRows = 0
  /\ headers = <<>>
  /\ body = <<>>
  /\ outPath = "output"
  /\ files = [template |-> Absent, output |-> Absent]
  /\ dirExists = FALSE
  /\ dirBlocked = FALSE
  /\ InitRun
  /\ pc = "idle"
  /\ run = 1
  /\ atStart = Snapshot
  /\ afterFirst = Snapshot

NextExtract == Extract /\ UNCHANGED pipeVars

InitExtract == ExInputs /\ PipeIdle

SpecExtract == InitExtract /\ [][NextExtract]_vars

\* ----------------------------------------------------- claim C2: reference

\* positions of the tokens that are two letters followed by six digits
IdPositions(tokens) ==
  {i \in 1..Len(tokens) :
     /\ Len(tokens[i]) = 8
     /\ {tokens[i][1], tokens[i][2]} \subseteq Letters
     /\ {tokens[i][j] : j \in 3..8} \subseteq Digits}

FirstIdPosition(tokens) ==
  CHOOSE i \in IdPositions(tokens) : \A j \in IdPositions(tokens) : i <= j

\* the side with strictly more tokens, the left one on a tie
RefSide(tokens, i) ==
  IF Len(tokens) - i > i - 1
  THEN [p \in 1..(Len(tokens) - i) |-> tokens[i + p]]
  ELSE [p \in 1..(i - 1) |-> tokens[p]]

\* the tokens of side that have no equal token before them, in order
RefUnique(side) ==
  LET keep == {p \in 1..Len(side) : \A q \in 1..(p - 1) : side[q] # side[p]}
      Rank(p) == Cardinality({q \in keep : q <= p})
  IN  [r \in 1..Cardinality(keep) |-> side[CHOOSE p \in keep : Rank(p) = r]]

RECURSIVE RefJoin(_)
RefJoin(parts) ==
  IF Len(parts) = 0 THEN <<>>
  ELSE IF Len(parts) = 1 THEN parts[1]
  ELSE RefJoin(SubSeq(parts, 1, Len(parts) - 1)) \o <<" ">> \o parts[Len(parts)]

Reference(tokens) ==
  IF IdPositions(tokens) = {} THEN [id |-> <<>>, name |-> <<>>]
  ELSE [id   |-> tokens[FirstIdPosition(tokens)],
        name |-> RefJoin(RefUnique(RefSide(tokens, FirstIdPosition(tokens))))]

\* C2: for every token sequence, extract_student_fields returns the (id, name)
\* of the reference algorithm: the first token that is two letters and six
\* digits; the tokens of the side with strictly more tokens (left on a tie),
\* duplicates removed keeping first occurrences, joined by single spaces;
\* both empty when no token matches.
C2_ExtractMatchesReference ==
  exPc = "done" => exOut = Reference(exTokens)

\* an identifier was found, the right side won and a duplicate was removed
C2_Witness ==
  /\ exPc = "done"
  /\ exOut.id = Chars("AB123456")
  /\ exTokens[1] = Chars("AB123456")
  /\ Len(exTokens) = 4
  /\ exTokens[2] = exTokens[4]
  /\ exOut.name = exTokens[2] \o <<" ">> \o exTokens[3]

\* ------------------------------------------------------ claims C1, C3 - C10

RequiredLabels ==
  {"ActivityDescription", "TherapistName", "Date", "PlacementDesc",
   "RateName", "EntryQuantity", "ChargeRate", "TotalCharge"}

\* the data rows (rows at index >= 2) with a value in one of the columns cols
RowsWithValueIn(cols) ==
  {r \in 1..Len(body) : \E c \in cols : body[r][c].k # "null"}

AbsentLabels == RequiredLabels \ {headers[c] : c \in 1..Len(headers)}

\* C3: for every table of at least 3 rows whose header row lacks a required
\* label, load_source_dataframe fails with the missing-columns error, and the
\* error names every absent required label and no label that is present.
C3_MissingColumnsNamed ==
  (rawRows >= 3 /\ AbsentLabels # {} /\ pc # "load") =>
    /\ pc = "failed"
    /\ err.kind = "MissingColumns"
    /\ {err.missing[i] : i \in 1..Len(err.missing)} = AbsentLabels
    /\ Len(err.missing) = Cardinality(AbsentLabels)

\* two labels are absent and both are named
C3_Witness ==
  /\ pc = "failed"
  /\ rawRows >= 3
  /\ err.kind = "MissingColumns"
  /\ Len(err.missing) = 2

Ended == pc \in {"done", "failed"}

\* C4 as stated: convert fails with the template-not-found error whenever the
\* template path is no existing file, for every source and output path.
C4_AlwaysTemplateNotFound ==
  (Ended /\ ~files[TemplatePath].exists) =>
    (pc = "failed" /\ err.kind = "TemplateNotFound")

\* C4 amended: whenever the template path is no existing file, convert fails;
\* it fails with the template-not-found error unless an earlier step failed
\* first: loading the source, transforming it, or making the destination
\* directory.
C4_TemplateNotFoundAfterEarlierSteps ==
  ~files[TemplatePath].exists =>
    /\ pc \notin {"open", "write", "done"}
    /\ (pc = "failed" /\ err.kind \notin {"InsufficientRows", "MissingColumns",
                                           "ValueError", "OSError"})
         => err.kind = "TemplateNotFound"

\* the source loaded and was transformed, the directory was made, and the
\* copy found no template
C4_Witness ==
  /\ pc = "failed"
  /\ err.kind = "TemplateNotFound"
  /\ dfSource # NoFrame
  /\ dfTarget # <<>>
  /\ dirExists /\ ~atStart.dirExists

\* the text s without its leading and trailing white space
Trimmed(s) ==
  LET inked == {i \in 1..Len(s) : s[i] \notin {" ", "\t"}}
  IN  IF inked = {} THEN <<>>
      ELSE LET lo == CHOOSE i \in inked : \A j \in inked : i <= j
               hi == CHOOSE i \in inked : \A j \in inked : j <= i
           IN  [i \in 1..(hi - lo + 1) |-> s[lo + i - 1]]

TextOrEmpty(cell) == IF cell.k = "null" THEN <<>> ELSE Trimmed(cell.s)

\* C5: for every retained row, TherapistName of the record is the empty
\* string when the source TherapistName cell is null and Service is the empty
\* string when the source PlacementDesc cell is null; otherwise each is the
\* trimmed source text.
C5_NullTextIsEmpty ==
  (pc = "mkdir" /\ dfTarget # <<>>) =>
    /\ dfTarget[1][1] = Str(TextOrEmpty(dfSource.rows[1][2]))
    /\ dfTarget[1][5] = Str(TextOrEmpty(dfSource.rows[1][4]))

Abs(x) == IF x < 0 THEN 0 - x ELSE x

\* C6: for every retained row, MinutesOnIEP is EntryQuantity * 60 rounded to
\* 2 decimal places when EntryQuantity is present, and the empty string when
\* it is absent; zero hours give the number 0, absent hours never give 0.
C6_MinutesRounded ==
  (pc = "mkdir" /\ dfTarget # <<>>) =>
    LET hours   == dfSource.rows[1][6]
        minutes == dfTarget[1][6]
    IN  IF hours.k = "null"
        THEN minutes.k = "str" /\ minutes.s = <<>>
        ELSE /\ minutes.k = "num"
             /\ 2 * Abs(minutes.n * 10000 - hours.n * 60 * 100) <= 10000

\* 0.3333 hours are 19.998 minutes, rounded to 20.00
C6_Witness ==
  /\ pc = "mkdir"
  /\ dfTarget # <<>>
  /\ dfSource.rows[1][6] = Num(3333)
  /\ dfTarget[1][6] = Num(2000)

\* C7: after write_to_template has succeeded on n records, the cell at row
\* 7 + k and column A + j of the destination sheet holds field j of record k,
\* for every k in 0..n-1 and j in 0..5.
C7_RecordsInRows ==
  pc = "done" =>
    \A k \in 0..(Len(dfTarget) - 1), j \in 0..5 :
      files[outPath].sheet[<< <<"A", "B", "C", "D", "E", "F">>[j + 1], 7 + k >>].value
        = dfTarget[k + 1][j + 1]

\* two different records were written
C7_Witness ==
  /\ pc = "done"
  /\ Len(dfTarget) = 2
  /\ dfTarget[1] # dfTarget[2]

\* C8: after two runs of convert with the same source, template and output
\* path, the destination file is what it was after the first run, whatever
\* it held before the first run.
C8_SecondRunSameDestination ==
  (run = 2 /\ Ended) => files[outPath] = afterFirst.files[outPath]

\* both runs succeeded, records were written, and the destination held
\* something else before the first run
C8_Witness ==
  /\ run = 2
  /\ pc = "done"
  /\ dfTarget # <<>>
  /\ atStart.files[outPath] = File(OldSheet)
  /\ files[outPath] # atStart.files[outPath]

\* C9: in every run of write_to_template the template is copied to the
\* destination before any cell is written, the cell writes and the save go to
\* the destination copy, and the template file is in every state what it was
\* at the start, also when the run fails and when the output path is the
\* template path.
C9_TemplateNeverMutated ==
  [][ /\ files'[TemplatePath] = files[TemplatePath]
      /\ pc' \in {"open", "write"} =>
           (outPath # TemplatePath /\ files'[outPath] = files'[TemplatePath])
      /\ files' # files =>
           (pc = "copy" \/ (pc = "write" /\ files' = [files EXCEPT ![outPath] = File(workbook)]))
    ]_vars

\* a run ended with records saved to the destination, which now differs from
\* the template
C9_Witness ==
  /\ pc = "done"
  /\ dfTarget # <<>>
  /\ files[TemplatePath] = atStart.files[TemplatePath]
  /\ files[outPath] # files[TemplatePath]

\* C10: when source loading fails, the run ends in an error without any
\* effect on the file system: the destination directory is not made and the
\* destination file is neither made nor changed.
C10_LoadFailureNoEffect ==
  (pc = "failed" /\ err.kind \in {"InsufficientRows", "MissingColumns"}) =>
    Snapshot = atStart

\* loading failed while the destination directory was absent and could have
\* been made
C10_Witness ==
  /\ pc = "failed"
  /\ err.kind = "MissingColumns"
  /\ ~dirExists
  /\ ~dirBlocked

====
